---- MODULE Spec2Model ----
(***************************************************************************)
(* The autocomplete Panel (AutoComplete, src/unnamed/part_000 lines        *)
(* 145-520) and its Trigger (AutoCompleteDirective, src/unnamed/part_001   *)
(* lines 87-394) as one state machine.  Every handler of the two classes   *)
(* is a function from program state to program state; the synchronous      *)
(* callbacks triggered inside a handler (an option's selection-change      *)
(* event, the overlay's detachment event, the single-selection             *)
(* notification, the key manager's change and tab-out events) are calls    *)
(* made at the place where the code emits them, so one action is one       *)
(* whole handler run to completion.                                        *)
(*                                                                         *)
(* Option values are the numbers 1..NumValues.  An option is a record      *)
(* [value, selected]; the rendered list `options` is the QueryList.        *)
(* Indices of the key manager are 0-based as in the code; sequences are    *)
(* 1-based, so the option at index i is options[i + 1].                    *)
(***************************************************************************)
EXTENDS Integers, Sequences, FiniteSets, TLC

\* Number of distinct option values the host can render.
NumValues == 2

Values == 1..NumValues

VARIABLES
    options,              \* QueryList<MatOption>: sequence of [value, selected]
    selectionModel,       \* SelectionModel.selected: values in insertion order
    smMultiple,           \* the _multiple flag the SelectionModel was built with
    multiple,             \* the Panel's `multiple` input (getter `multiple`)
    selected,             \* the published two-way `selected` value
    showPanel,            \* Panel.showPanel signal
    isOpenSignal,         \* Panel._isOpen signal (the Panel's open-state)
    panelOpen,            \* Trigger.panelOpen signal
    attached,             \* overlayRef.hasAttached()
    portal,               \* TRUE once the TemplatePortal has been constructed
    activeItemIndex,      \* keyManager.activeItemIndex (-1 = none)
    activeItem,           \* keyManager.activeItem: 0 = null, a value = that
                          \* rendered option, -1 = an option no longer rendered
    autoActiveFirstOption,\* Panel.autoActiveFirstOption input
    devMode,              \* ngDevMode of the build (SelectionModel assertions)
    hasOrigin,            \* formField?.getConnectedOverlayOrigin() is defined
    overlayRef,           \* Trigger.overlayRef: "undefined", "created" or
                          \* "disposed" (the reference is kept after dispose)
    ariaLabel,            \* Panel.ariaLabel input (string | null)
    ariaLabelledby,       \* Panel.ariaLabelledby input (string | null)
    labelId,              \* the form field's label id (string | null)
    panelLabelledby,      \* the panel's rendered aria-labelledby attribute
    triggerDestroyed,     \* the Trigger's DestroyRef has run its callbacks
    panelDestroyed        \* the Panel's DestroyRef has run its callbacks

vars == <<options, selectionModel, smMultiple, multiple, selected, showPanel,
          isOpenSignal, panelOpen, attached, portal, activeItemIndex,
          activeItem, autoActiveFirstOption, devMode, hasOrigin, overlayRef,
          ariaLabel, ariaLabelledby, labelId, panelLabelledby,
          triggerDestroyed, panelDestroyed>>

\* keyManager.activeItem values that are not rendered options
NullItem == 0
StaleItem == -1

(***************************************************************************)
(* The program state as one record, so that handlers compose.  The field   *)
(* `trace` of a handler's result lists, in order, the calls it made and    *)
(* the notifications it emitted, each with the state seen at that moment.  *)
(***************************************************************************)
State ==
    [options |-> options, selectionModel |-> selectionModel,
     smMultiple |-> smMultiple, multiple |-> multiple, selected |-> selected,
     showPanel |-> showPanel, isOpenSignal |-> isOpenSignal,
     panelOpen |-> panelOpen, attached |-> attached, portal |-> portal,
     activeItemIndex |-> activeItemIndex, activeItem |-> activeItem,
     autoActiveFirstOption |-> autoActiveFirstOption, devMode |-> devMode,
     hasOrigin |-> hasOrigin, overlayRef |-> overlayRef,
     ariaLabel |-> ariaLabel, ariaLabelledby |-> ariaLabelledby,
     labelId |-> labelId, panelLabelledby |-> panelLabelledby,
     triggerDestroyed |-> triggerDestroyed, panelDestroyed |-> panelDestroyed,
     trace |-> <<>>]

\* What an observer sees at the moment a call or notification happens.
Snap(s) ==
    [options |-> s.options, selectionModel |-> s.selectionModel,
     selected |-> s.selected, attached |-> s.attached,
     panelOpen |-> s.panelOpen, isOpenSignal |-> s.isOpenSignal,
     activeItemIndex |-> s.activeItemIndex]

\* Record a call or a notification, with the option value it carries (0 = none).
Log(s, name, opt) ==
    [s EXCEPT !.trace = Append(@, [name |-> name, opt |-> opt, at |-> Snap(s)])]

(***************************************************************************)
(* Sequence helpers.                                                       *)
(***************************************************************************)
Range(q) == {q[i] : i \in 1..Len(q)}

RECURSIVE Remove(_, _)
Remove(q, v) ==
    IF q = <<>> THEN <<>>
    ELSE IF Head(q) = v THEN Remove(Tail(q), v)
    ELSE <<Head(q)>> \o Remove(Tail(q), v)

\* 0-based index of value v in the option list, -1 when absent (Array.indexOf)
IndexOfValue(opts, v) ==
    IF \E i \in 1..Len(opts) : opts[i].value = v
    THEN (CHOOSE i \in 1..Len(opts) : opts[i].value = v) - 1
    ELSE -1

(***************************************************************************)
(* SelectionModel (@angular/cdk/collections), as the Panel constructs it   *)
(* in ngOnInit: new SelectionModel<T>(this._multiple()), that is, no       *)
(* initial values and no compareWith, so membership is identity of values. *)
(***************************************************************************)
isSelected(sm, v) == \E i \in 1..Len(sm) : sm[i] = v

\* _markSelected without the single-mode eviction
markSelectedNoEvict(sm, mult, v) ==
    IF isSelected(sm, v) THEN sm ELSE Append(sm, v)

\* _markSelected: in single mode every other value is evicted first
markSelected(sm, mult, v) ==
    IF isSelected(sm, v) THEN sm
    ELSE IF mult THEN Append(sm, v) ELSE <<v>>

\* _unmarkSelected that removes nothing
unmarkSelectedKeep(sm, v) == sm

unmarkSelected(sm, v) == Remove(sm, v)

toggle(sm, mult, v) ==
    IF isSelected(sm, v) THEN unmarkSelected(sm, v) ELSE markSelected(sm, mult, v)

RECURSIVE markAll(_, _, _)
markAll(sm, mult, vals) ==
    IF vals = <<>> THEN sm
    ELSE markAll(markSelected(sm, mult, Head(vals)), mult, Tail(vals))

\* _verifyValueAssignment: several values given to a single-selection model
\* throw when ngDevMode is on
verifyThrows(mult, vals, dev) == Len(vals) > 1 /\ ~mult /\ dev

\* setSelection(...values): mark every value, then unmark the old values
\* that are not among them
setSelection(sm, mult, vals) ==
    LET marked == markAll(sm, mult, vals)
        keep(v) == v \in Range(vals)
    IN SelectSeq(marked, keep)

clear(sm) == <<>>

(***************************************************************************)
(* ActiveDescendantKeyManager (@angular/cdk/a11y) over the option list,    *)
(* built in ngAfterContentInit with withWrap() and the Panel's             *)
(* skipPredicate, and the Panel's subscription to its change stream.       *)
(***************************************************************************)
\* AutoComplete.skipPredicate(): no option is skipped
\* the key manager's own default predicate: item => item.disabled
skipDisabled(opt) == opt.disabled

skipPredicate(opt) == FALSE

\* Array.prototype.at(i): a negative index counts from the end; 0 = undefined
ArrayAt(opts, i) ==
    LET j == IF i < 0 THEN Len(opts) + i ELSE i
    IN IF j >= 0 /\ j < Len(opts) THEN opts[j + 1].value ELSE 0

\* array[i]: undefined (0) outside 0..length-1
ArrayGet(opts, i) ==
    IF i >= 0 /\ i < Len(opts) THEN opts[i + 1].value ELSE 0

\* _subscribeToKeyManagerChanges: scroll the option at the active index into view
\* a change subscriber that also selects the active option in the model
keyManagerChangeSelecting(s) ==
    LET activeOption == ArrayAt(s.options, s.activeItemIndex)
    IN IF activeOption # 0
       THEN [Log(s, "scrollIntoView", activeOption)
                EXCEPT !.selectionModel = markSelected(@, s.smMultiple, activeOption)]
       ELSE s

\* (takeUntilDestroyed: no subscriber once the Panel is destroyed)
keyManagerChange(s) ==
    LET activeOption == ArrayAt(s.options, s.activeItemIndex)
    IN IF s.panelDestroyed THEN s
       ELSE IF activeOption # 0 THEN Log(s, "scrollIntoView", activeOption) ELSE s

\* ListKeyManager.setActiveItem(index): updateActiveItem, then emit `change`
\* when the active item object changed
setActiveItem(s, index) ==
    LET item == ArrayGet(s.options, index)
        s1 == [s EXCEPT !.activeItem = item, !.activeItemIndex = index]
    IN IF item # s.activeItem THEN keyManagerChange(s1) ELSE s1

\* a setActiveItem(item) that leaves the key manager alone
setActiveItemOptionSkipped(s, v) == s

\* ListKeyManager.setActiveItem(item): the index is itemArray.indexOf(item)
setActiveItemOption(s, v) == setActiveItem(s, IndexOfValue(s.options, v))

\* _setActiveItemByIndex(index, fallbackDelta)
RECURSIVE setActiveItemByIndex(_, _, _)
setActiveItemByIndex(s, index, delta) ==
    IF ArrayGet(s.options, index) = 0 THEN s
    ELSE IF skipPredicate(s.options[index + 1])
         THEN setActiveItemByIndex(s, index + delta, delta)
         ELSE setActiveItem(s, index)

\* a setFirstItemActive that activates nothing
setFirstItemActiveNone(s) == s

setFirstItemActive(s) == setActiveItemByIndex(s, 0, 1)

setLastItemActive(s) == setActiveItemByIndex(s, Len(s.options) - 1, -1)

\* _setActiveInDefaultMode(delta): no wrap, the index stays at the ends
setActiveInDefaultMode(s, delta, i) ==
    setActiveItemByIndex(s, s.activeItemIndex + delta * i, delta)

\* _setActiveInWrapMode(delta): i-th candidate of the loop
RECURSIVE setActiveInWrapMode(_, _, _)
setActiveInWrapMode(s, delta, i) ==
    LET n == Len(s.options)
        index == (s.activeItemIndex + delta * i + n) % n
    IN IF i > n THEN s
       ELSE IF ~skipPredicate(s.options[index + 1]) THEN setActiveItem(s, index)
       ELSE setActiveInWrapMode(s, delta, i + 1)

setNextItemActive(s) ==
    IF s.activeItemIndex < 0 THEN setFirstItemActive(s)
    ELSE setActiveInWrapMode(s, 1, 1)

setPreviousItemActive(s) ==
    IF s.activeItemIndex < 0 THEN setLastItemActive(s)
    ELSE setActiveInWrapMode(s, -1, 1)

(***************************************************************************)
(* Trigger: closing the overlay.                                           *)
(***************************************************************************)
RECURSIVE closeOverlay(_)

\* the subscriber without its hasAttached() check
closingActionUnguarded(s, targetIsInput) ==
    IF targetIsInput THEN s ELSE closeOverlay(s)

\* the subscriber without its check of the event's target
closingActionAnyTarget(s, targetIsInput) ==
    IF ~s.attached THEN s ELSE closeOverlay(s)

\* The subscriber of panelClosingActions() set up in ngAfterViewInit.
\* targetIsInput: the event is a pointer event whose target is the input.
closingAction(s, targetIsInput) ==
    IF s.triggerDestroyed THEN s
    ELSE IF ~s.attached THEN s
    ELSE IF targetIsInput THEN s
    ELSE closeOverlay(s)

\* OverlayRef.detach(): detaches the portal and emits detachments()
overlayDetach(s) ==
    IF ~s.attached THEN s
    ELSE closingAction([s EXCEPT !.attached = FALSE], FALSE)

closeOverlay(s) ==
    LET s0 == Log(s, "closeOverlay", 0)
        s1 == IF s0.attached THEN overlayDetach(s0) ELSE s0
        s2 == [s1 EXCEPT !.panelOpen = FALSE]
        s3 == setActiveItem(s2, -1)
        s4 == [s3 EXCEPT !.isOpenSignal = FALSE]
    IN Log(s4, "closed", 0)

(***************************************************************************)
(* Panel: the subscriber of optionSelectionChanges                         *)
(* (_subscribeToOptionSelectionChanges).  i is the 1-based position of the *)
(* option that emitted the event.                                          *)
(***************************************************************************)
SetFlag(opts, i, b) == [opts EXCEPT ![i].selected = b]

OptionValues(opts) == [i \in 1..Len(opts) |-> opts[i].value]

AllSelected(opts) == \A i \in 1..Len(opts) : opts[i].selected

NoneSelected(opts) == \A i \in 1..Len(opts) : ~opts[i].selected

\* options.forEach(opt => opt.deselect(false)), then
\* options.find(opt => selectionModel.isSelected(opt.value))?.select(false)
syncSingle(opts, sm) ==
    LET hits == {i \in 1..Len(opts) : isSelected(sm, opts[i].value)}
        first == IF hits = {} THEN 0 ELSE CHOOSE i \in hits : \A j \in hits : i <= j
    IN [i \in 1..Len(opts) |-> [opts[i] EXCEPT !.selected = (i = first)]]

\* the multiple-mode branch without its two reconciliation steps
reconcileMultipleNone(s, sm) == [sm |-> sm, threw |-> FALSE]

\* the multiple-mode reconciliation; [sm, threw]
reconcileMultiple(s, sm) ==
    LET vals == OptionValues(s.options)
        full == AllSelected(s.options)
        threw == full /\ verifyThrows(s.smMultiple, vals, s.devMode)
        sm1 == IF full /\ ~threw THEN setSelection(sm, s.smMultiple, vals) ELSE sm
        sm2 == IF ~threw /\ NoneSelected(s.options) THEN clear(sm1) ELSE sm1
    IN [sm |-> sm2, threw |-> threw]

\* the value published by this.selected.set(this.selectionModel.selected)
publish(s) == [s EXCEPT !.selected = s.selectionModel]

\* the single-mode tail with the notification emitted before the resync
singleSelectionTailEmitFirst(s) ==
    LET s1 == closingAction(Log(s, "singleSelectionChange", 0), FALSE)
    IN [s1 EXCEPT !.options = syncSingle(s1.options, s1.selectionModel)]

\* the single-mode tail of the handler: resync the options' flags, then
\* emit singleSelectionChange, which the Trigger's closing subscriber receives
singleSelectionTail(s) ==
    LET s1 == [s EXCEPT !.options = syncSingle(s.options, s.selectionModel)]
        s2 == Log(s1, "singleSelectionChange", 0)
    IN closingAction(s2, FALSE)

\* this.selectionModel.toggle(option)
modelToggle(s, v) == toggle(s.selectionModel, s.smMultiple, v)

\* emitSelectEvent(option): emits optionSelected; no handler calls it
emitSelectEvent(s, v) == Log(s, "optionSelected", v)

selectionChangeSubscriber(s, i) ==
    LET v == s.options[i].value
        s0 == Log(s, "selectionChange", v)
        toggled == modelToggle(s0, v)
        rec == IF s0.multiple
               THEN reconcileMultiple(s0, toggled)
               ELSE [sm |-> toggled, threw |-> FALSE]
        s1 == [s0 EXCEPT !.selectionModel = rec.sm]
    IN IF rec.threw THEN Log(s1, "error", v)
       ELSE LET s2 == publish(s1)
            IN IF ~s2.multiple THEN singleSelectionTail(s2) ELSE s2

\* a subscriber that emits singleSelectionChange in either mode
onSelectionChangeClosing(s, i) ==
    IF s.panelDestroyed THEN s
    ELSE LET r == selectionChangeSubscriber(s, i)
         IN IF r.multiple THEN singleSelectionTail(r) ELSE r

\* a subscription that outlives the Panel
onSelectionChangeNotSevered(s, i) == selectionChangeSubscriber(s, i)

\* optionSelectionChanges.pipe(takeUntilDestroyed(this.destroyRef)).subscribe
onSelectionChange(s, i) ==
    IF s.panelDestroyed THEN s ELSE selectionChangeSubscriber(s, i)

(***************************************************************************)
(* MatOption (@angular/material/core): select, deselect and the pointer    *)
(* interaction, each emitting onSelectionChange synchronously.             *)
(***************************************************************************)
optionSelect(s, i) ==
    IF s.options[i].selected THEN s
    ELSE onSelectionChange([s EXCEPT !.options = SetFlag(@, i, TRUE)], i)

optionDeselect(s, i) ==
    IF ~s.options[i].selected THEN s
    ELSE onSelectionChange([s EXCEPT !.options = SetFlag(@, i, FALSE)], i)

\* _selectViaInteraction(): if (!this.disabled) { selected = multiple ?
\* !selected : true; emit }; a disabled option changes and emits nothing
selectViaInteraction(s, i) ==
    IF s.options[i].disabled THEN s
    ELSE LET b == IF s.multiple THEN ~s.options[i].selected ELSE TRUE
         IN onSelectionChange([s EXCEPT !.options = SetFlag(@, i, b)], i)

\* opt.selected ? opt.deselect() : opt.select()
optionToggle(s, i) ==
    IF s.options[i].selected THEN optionDeselect(s, i) ELSE optionSelect(s, i)

(***************************************************************************)
(* Panel: the subscriber of options.changes (_subscribeToOptionsChanges),  *)
(* and the key manager's own subscriber of the same stream.                *)
(***************************************************************************)
\* the key manager follows its active item to its new index, if still rendered
keyManagerItemsChange(s, newOpts) ==
    IF s.activeItem = NullItem THEN s
    ELSE LET newIndex == IF s.activeItem = StaleItem THEN -1
                         ELSE IndexOfValue(newOpts, s.activeItem)
         IN IF newIndex > -1
            THEN [s EXCEPT !.activeItemIndex = newIndex]
            ELSE [s EXCEPT !.activeItem = StaleItem]

\* setVisibility()
setVisibilityHidden(s) == [s EXCEPT !.showPanel = FALSE]

setVisibility(s) == [s EXCEPT !.showPanel = Len(s.options) > 0]

\* isOpen = computed(() => this._isOpen() && this.showPanel())
isOpen(s) == s.isOpenSignal /\ s.showPanel

\* the QueryList after the host renders vals: an option that stays rendered
\* keeps its selected and disabled flags, a new option is unselected and
\* enabled (MatOption.disabled defaults to false)
rendered(opts, vals) ==
    [i \in 1..Len(vals) |->
        [value |-> vals[i],
         selected |-> \E j \in 1..Len(opts) : opts[j].value = vals[i] /\ opts[j].selected,
         disabled |-> \E j \in 1..Len(opts) : opts[j].value = vals[i] /\ opts[j].disabled]]

\* a re-synchronization by op.select() / op.deselect(), which emit
resyncOptionEmitting(s, i) ==
    IF isSelected(s.selectionModel, s.options[i].value)
    THEN optionSelect(s, i)
    ELSE optionDeselect(s, i)

\* isSelected(op.value) ? op.select(false) : op.deselect(false)
resyncOption(s, i) ==
    [s EXCEPT !.options = SetFlag(@, i, isSelected(s.selectionModel, s.options[i].value))]

\* changes.forEach(...), from i on
RECURSIVE resyncEach(_, _)
resyncEach(s, i) ==
    IF i > Len(s.options) THEN s ELSE resyncEach(resyncOption(s, i), i + 1)

\* vals: the values the host now renders, in order
optionsChange(s, vals) ==
    LET fresh == rendered(s.options, vals)
        s1 == keyManagerItemsChange(s, fresh)
        s2 == [s1 EXCEPT !.options = fresh, !.showPanel = FALSE]
        s3 == resyncEach(s2, 1)
    IN IF s.panelDestroyed THEN s ELSE setVisibility(s3)

(***************************************************************************)
(* Trigger: opening, focus and keyboard routing.                           *)
(***************************************************************************)
\* an openOverlay that builds a portal at every open
openOverlayNewPortal(s) ==
    LET s0 == Log(s, "openOverlay", 0)
        s1 == Log([s0 EXCEPT !.portal = TRUE], "newPortal", 0)
        s2 == Log([s1 EXCEPT !.attached = TRUE], "attach", 0)
        s3 == [s2 EXCEPT !.panelOpen = TRUE, !.isOpenSignal = TRUE]
        s4 == Log(s3, "opened", 0)
    IN IF s4.autoActiveFirstOption THEN setFirstItemActive(s4) ELSE s4

openOverlay(s) ==
    LET s0 == Log(s, "openOverlay", 0)
        s1 == IF ~s0.portal THEN Log([s0 EXCEPT !.portal = TRUE], "newPortal", 0) ELSE s0
        s2 == Log([s1 EXCEPT !.attached = TRUE], "attach", 0)
        s3 == [s2 EXCEPT !.panelOpen = TRUE, !.isOpenSignal = TRUE]
        s4 == Log(s3, "opened", 0)
    IN IF s4.autoActiveFirstOption THEN setFirstItemActive(s4) ELSE s4

\* handleFocus without its hasAttached() check
handleFocusUnguarded(s) == openOverlay(s)

handleFocus(s) == IF ~s.attached THEN openOverlay(s) ELSE s

\* hasModifierKey(event): any of alt, shift, ctrl (meta behaves as shift here)
hasModifierKey(ev) == ev.alt \/ ev.ctrl \/ ev.shift

isKeydownCloseOverlay(ev) ==
    \/ ev.key = "Escape" /\ ~hasModifierKey(ev)
    \/ ev.key = "ArrowUp" /\ ev.alt

isKeydownOpenOverlay(ev) ==
    \/ ev.key = "ArrowDown" /\ ev.alt
    \/ ev.key = "ArrowUp"
    \/ ev.key = "ArrowDown"

\* ListKeyManager.onKeydown: vertical navigation with wrap, no allowed
\* modifier keys, no home/end, no typeahead; Tab emits tabOut.
\* First a variant in which Tab emits nothing.
onKeydownNoTabOut(s, ev) ==
    LET s0 == Log(s, "onKeydown", 0)
    IN IF ev.key = "ArrowDown" /\ ~hasModifierKey(ev) THEN setNextItemActive(s0)
       ELSE IF ev.key = "ArrowUp" /\ ~hasModifierKey(ev) THEN setPreviousItemActive(s0)
       ELSE s0

onKeydown(s, ev) ==
    LET s0 == Log(s, "onKeydown", 0)
    IN IF ev.key = "Tab"
       THEN IF s0.panelDestroyed THEN s0
            ELSE closingAction(Log(s0, "tabOut", 0), FALSE)
       ELSE IF ev.key = "ArrowDown" /\ ~hasModifierKey(ev) THEN setNextItemActive(s0)
       ELSE IF ev.key = "ArrowUp" /\ ~hasModifierKey(ev) THEN setPreviousItemActive(s0)
       ELSE s0

\* a forEach that stops after its first option
toggleEachFirstOnly(s, i) ==
    IF i > Len(s.options) THEN s ELSE optionToggle(s, i)

\* options.forEach(opt => opt.selected ? opt.deselect() : opt.select()), from i on
RECURSIVE toggleEach(_, _)
toggleEach(s, i) ==
    IF i > Len(s.options) THEN s ELSE toggleEach(optionToggle(s, i), i + 1)

\* a routing whose select-all rule tests neither the mode nor the open flag
routeKeydownSelectAllAlways(s, ev, isActive, mult) ==
    IF ev.key = "a" /\ ev.ctrl THEN toggleEach(s, 1) ELSE onKeydown(s, ev)

\* handleKeydown after its close rule: the open rule, the select-all rule,
\* the Enter/Space rule and the delegation to the key manager.  isActive and
\* mult are the values read at the start of handleKeydown.
routeKeydown(s, ev, isActive, mult) ==
    LET s1 == IF isKeydownOpenOverlay(ev) THEN handleFocus(s) ELSE s
    IN IF mult /\ ev.key = "a" /\ ev.ctrl /\ s1.panelOpen
       THEN toggleEach(s1, 1)
       ELSE IF isActive # 0 /\ s1.panelOpen /\ ev.key \in {"Enter", " "}
       THEN LET s2 == optionToggle(s1, IndexOfValue(s1.options, isActive) + 1)
            IN IF ~mult
               THEN Log(setActiveItemOption(s2, isActive), "focusInput", 0)
               ELSE s2
       ELSE onKeydown(s1, ev)

\* handleKeydown whose close rule does not return
handleKeydownCloseContinues(s, ev) ==
    LET isActive == ArrayGet(s.options, s.activeItemIndex)
        mult == s.multiple
    IN routeKeydown(IF isKeydownCloseOverlay(ev) THEN closeOverlay(s) ELSE s,
                    ev, isActive, mult)

handleKeydown(s, ev) ==
    LET isActive == ArrayGet(s.options, s.activeItemIndex)
        mult == s.multiple
    IN IF isKeydownCloseOverlay(ev) THEN closeOverlay(s)
       ELSE routeKeydown(s, ev, isActive, mult)

(***************************************************************************)
(* The state machine.                                                      *)
(***************************************************************************)
\* the value lists a host can render: distinct values in any order
RECURSIVE Lists(_)
Lists(n) ==
    IF n = 0 THEN {<<>>}
    ELSE Lists(n - 1) \cup
         {Append(q, v) : q \in {r \in Lists(n - 1) : Len(r) = n - 1}, v \in Values}

ValueLists == {q \in Lists(NumValues) : \A i, j \in 1..Len(q) : i # j => q[i] # q[j]}

Key(k, alt, ctrl, shift) == [key |-> k, alt |-> alt, ctrl |-> ctrl, shift |-> shift]

\* the keydown events delivered: every key the routing distinguishes, plain
\* and with the modifiers that change its routing, and one other key
KeyEvents ==
    {Key(k, FALSE, FALSE, FALSE) : k \in {"Escape", "ArrowUp", "ArrowDown", "Enter", " ", "a", "Tab", "x"}}
    \cup {Key(k, TRUE, FALSE, FALSE) : k \in {"ArrowUp", "ArrowDown"}}
    \cup {Key(k, FALSE, TRUE, FALSE) : k \in {"ArrowDown", "a"}}
    \cup {Key(k, FALSE, FALSE, TRUE) : k \in {"Escape", "ArrowUp"}}

\* install the state a handler returned
Commit(s) ==
    /\ options' = s.options
    /\ selectionModel' = s.selectionModel
    /\ smMultiple' = s.smMultiple
    /\ multiple' = s.multiple
    /\ selected' = s.selected
    /\ showPanel' = s.showPanel
    /\ isOpenSignal' = s.isOpenSignal
    /\ panelOpen' = s.panelOpen
    /\ attached' = s.attached
    /\ portal' = s.portal
    /\ activeItemIndex' = s.activeItemIndex
    /\ activeItem' = s.activeItem
    /\ autoActiveFirstOption' = s.autoActiveFirstOption
    /\ devMode' = s.devMode
    /\ hasOrigin' = s.hasOrigin
    /\ overlayRef' = s.overlayRef
    /\ ariaLabel' = s.ariaLabel
    /\ ariaLabelledby' = s.ariaLabelledby
    /\ labelId' = s.labelId
    /\ panelLabelledby' = s.panelLabelledby
    /\ triggerDestroyed' = s.triggerDestroyed
    /\ panelDestroyed' = s.panelDestroyed

\* after ngOnInit, ngAfterContentInit (Panel) and ngAfterViewInit (Trigger)
\* string | null: <<>> is null, <<x>> is the string x
Null == <<>>

\* neither component has been destroyed
InitAlive ==
    /\ triggerDestroyed = FALSE
    /\ panelDestroyed = FALSE

\* the Trigger inside a form field, after its ngAfterViewInit
InitTrigger ==
    /\ hasOrigin = TRUE
    /\ overlayRef = "created"
    /\ InitAlive


\* the label inputs at their defaults: input<string | null>(null)
InitLabels ==
    /\ ariaLabel = Null
    /\ ariaLabelledby = Null
    /\ labelId = Null
    /\ panelLabelledby = Null

\* the Panel after ngOnInit and ngAfterContentInit, the Trigger constructed
InitCore ==
    /\ \E vals \in ValueLists :
         options = [i \in 1..Len(vals) |->
                       [value |-> vals[i], selected |-> FALSE, disabled |-> FALSE]]
    /\ selectionModel = <<>>
    /\ multiple \in BOOLEAN
    /\ smMultiple = multiple
    /\ selected = <<>>
    /\ showPanel = (Len(options) > 0)
    /\ isOpenSignal = FALSE
    /\ panelOpen = FALSE
    /\ attached = FALSE
    /\ portal = FALSE
    /\ activeItemIndex = -1
    /\ activeItem = NullItem
    /\ autoActiveFirstOption \in BOOLEAN
    /\ devMode \in BOOLEAN

Init ==
    /\ InitCore
    /\ InitTrigger
    /\ InitLabels

\* the host calls option.select() / option.deselect()
Select == \E i \in 1..Len(options) : Commit(optionSelect(State, i))

Deselect == \E i \in 1..Len(options) : Commit(optionDeselect(State, i))

\* the user clicks a rendered option of the open panel
Click ==
    /\ attached /\ showPanel
    /\ \E i \in 1..Len(options) : Commit(selectViaInteraction(State, i))

\* focusin on the bound input
Focus == Commit(handleFocus(State))

\* keydown on the bound input
Keydown == \E ev \in KeyEvents : Commit(handleKeydown(State, ev))

\* a pointer event outside the attached overlay
OutsidePointer ==
    /\ attached
    /\ \E targetIsInput \in BOOLEAN :
         Commit(closingAction(Log(State, "outsidePointer", 0), targetIsInput))

\* a keydown dispatched to the attached overlay (target is not the input)
OverlayKeydown ==
    /\ attached
    /\ \E ev \in KeyEvents :
         Commit(IF isKeydownCloseOverlay(ev) THEN closingAction(State, FALSE) ELSE State)

\* the overlay is detached by something other than closeOverlay
DetachByOtherCause ==
    /\ attached
    /\ Commit(overlayDetach(State))

\* the host renders another list of options
OptionsChange ==
    \E vals \in ValueLists :
        /\ vals # OptionValues(options)
        /\ Commit(optionsChange(State, vals))

\* the host changes the Panel's `multiple` input
SetMultiple == Commit([State EXCEPT !.multiple = ~multiple])

\* the host re-binds [autoActiveFirstOption]: the input signal changes and
\* nothing reads it until the next openOverlay
SetAutoActiveFirstOption ==
    Commit([State EXCEPT !.autoActiveFirstOption = ~autoActiveFirstOption])

\* the host sets the `multiple` input to true after the first render
SetMultipleOn == ~multiple /\ SetMultiple

Next ==
    \/ Select
    \/ Deselect
    \/ Click
    \/ Focus
    \/ Keydown
    \/ OutsidePointer
    \/ OverlayKeydown
    \/ DetachByOtherCause
    \/ OptionsChange
    \/ SetMultiple
    \/ SetAutoActiveFirstOption

Spec == Init /\ [][Next]_vars

\* The host of the component tests: `multiple` is bound to false at the
\* first render and set to true afterwards; then options are selected and
\* deselected through their API, the rendered list staying as it is.
InitHost == Init /\ ~multiple

NextHost ==
    \/ SetMultipleOn
    \/ Select
    \/ Deselect

SpecHost == InitHost /\ [][NextHost]_vars

(***************************************************************************)
(* A host that filters a fixed list: the Panel is in multiple mode from    *)
(* its construction, and the host renders any sublist of the values        *)
(* 1..NumListed, in the list's order.  Options are selected and deselected *)
(* through their API, the overlay is opened by focus and closed by Escape, *)
(* and Ctrl+A is pressed on the input.                                     *)
(***************************************************************************)
\* Number of values in the host's list.
NumListed == 4

Listed == 1..NumListed

RECURSIVE SortedSeq(_)
SortedSeq(S) ==
    IF S = {} THEN <<>>
    ELSE LET least == CHOOSE x \in S : \A y \in S : x <= y
         IN <<least>> \o SortedSeq(S \ {least})

FilteredLists == {SortedSeq(S) : S \in SUBSET Listed}

SelectAllKey == Key("a", FALSE, TRUE, FALSE)

EscapeKey == Key("Escape", FALSE, FALSE, FALSE)

InitFilter ==
    /\ \E vals \in FilteredLists :
         options = [i \in 1..Len(vals) |->
                       [value |-> vals[i], selected |-> FALSE, disabled |-> FALSE]]
    /\ selectionModel = <<>>
    /\ multiple = TRUE
    /\ smMultiple = TRUE
    /\ selected = <<>>
    /\ showPanel = (Len(options) > 0)
    /\ isOpenSignal = FALSE
    /\ panelOpen = FALSE
    /\ attached = FALSE
    /\ portal = FALSE
    /\ activeItemIndex = -1
    /\ activeItem = NullItem
    /\ autoActiveFirstOption = FALSE
    /\ devMode \in BOOLEAN
    /\ InitTrigger
    /\ InitLabels

\* the host's filter renders another sublist
FilterOptions ==
    \E vals \in FilteredLists :
        /\ vals # OptionValues(options)
        /\ Commit(optionsChange(State, vals))

KeydownSelectAll == Commit(handleKeydown(State, SelectAllKey))

KeydownEscape == Commit(handleKeydown(State, EscapeKey))

NextFilter ==
    \/ Select
    \/ Deselect
    \/ FilterOptions
    \/ Focus
    \/ KeydownSelectAll
    \/ KeydownEscape

SpecFilter == InitFilter /\ [][NextFilter]_vars

(***************************************************************************)
(* A host that writes the two-way `selected` value: selected is a          *)
(* model() signal, and no effect or subscriber of the Panel reads it, so a *)
(* write changes the signal alone.                                         *)
(***************************************************************************)
\* the host sets [(selected)] to vals
writeSelected(s, vals) == [s EXCEPT !.selected = vals]

WriteSelected == \E vals \in ValueLists : Commit(writeSelected(State, vals))

NextWrite ==
    \/ WriteSelected
    \/ Select
    \/ Deselect

SpecWrite == Init /\ [][NextWrite]_vars

(***************************************************************************)
(* Properties.  A property of a handler is stated over every reachable     *)
(* state and every input of the handler: H(State, input) is the state the  *)
(* handler leaves, H(State, input).trace what it called and emitted.       *)
(***************************************************************************)
\* the three ways a rendered option emits a selection-change event
Sources == {"select", "deselect", "click"}

\* option i emits an event when the source acts on it in the current state:
\* select and deselect on a change of the flag, a click on an enabled option
\* of the open panel
Emits(s, i, src) ==
    CASE src = "select" -> ~s.options[i].selected
      [] src = "deselect" -> s.options[i].selected
      [] src = "click" -> s.attached /\ s.showPanel /\ ~s.options[i].disabled

Fire(s, i, src) ==
    CASE src = "select" -> optionSelect(s, i)
      [] src = "deselect" -> optionDeselect(s, i)
      [] src = "click" -> selectViaInteraction(s, i)

Indices(s) == 1..Len(s.options)

\* the entries of a trace with the given name
Named(tr, name) == SelectSeq(tr, LAMBDA e : e.name = name)

Count(tr, name) == Len(Named(tr, name))

\* the values of the options whose selected flag is set
FlaggedValues(opts) == {opts[i].value : i \in {j \in 1..Len(opts) : opts[j].selected}}

RenderedValues(opts) == {opts[i].value : i \in 1..Len(opts)}

\* the Panel and its selection model agree on the mode
SingleMode(s) == ~s.multiple /\ ~s.smMultiple

MultipleMode(s) == s.multiple /\ s.smMultiple

C2_MultipleSaturation ==
    \A i \in Indices(State) : \A src \in Sources :
        (multiple /\ Emits(State, i, src)) =>
            LET r == Fire(State, i, src)
            IN /\ AllSelected(r.options) =>
                    /\ Range(r.selectionModel) = RenderedValues(r.options)
                    /\ Len(r.selectionModel) = Len(r.options)
                    /\ r.selected = r.selectionModel
               /\ NoneSelected(r.options) =>
                    /\ r.selectionModel = <<>>
                    /\ r.selected = <<>>

\* C3: once the host has set `multiple` to true after the first render,
\* `selected` holds exactly the values of the options currently selected.
C3_HostMultipleSelectsAll ==
    multiple => Range(selected) = FlaggedValues(options)

C5_OptionSelectedEmitted ==
    \A i \in Indices(State) : \A src \in Sources :
        Emits(State, i, src) =>
            LET r == Fire(State, i, src)
            IN r.options[i].selected =>
                 \E k \in 1..Len(r.trace) :
                     r.trace[k].name = "optionSelected" /\ r.trace[k].opt = options[i].value

\* C6: in single mode every selection-change event emits exactly one
\* singleSelectionChange, and at that moment the model is updated, `selected`
\* is published and the options' flags are re-synced; a close of the overlay
\* made in response sees the new selection.
C6_SingleNotificationAfterReconcile ==
    \A i \in Indices(State) : \A src \in Sources :
        (~multiple /\ Emits(State, i, src)) =>
            LET r == Fire(State, i, src)
                new == toggle(selectionModel, smMultiple, options[i].value)
                singles == Named(r.trace, "singleSelectionChange")
                closes == Named(r.trace, "closeOverlay")
            IN /\ Len(singles) = 1
               /\ singles[1].at.selectionModel = new
               /\ singles[1].at.selected = new
               /\ singles[1].at.options = r.options
               /\ FlaggedValues(r.options) \subseteq Range(new)
               /\ \A k \in 1..Len(closes) : closes[k].at.selected = new
               /\ r.trace[Len(r.trace)].name = "singleSelectionChange" \/ Len(closes) = 1

\* C6 witness: the overlay is open with A selected; selecting B makes the
\* Trigger close the overlay, and the close sees selected = [B]
C6_Witness ==
    /\ ~multiple /\ attached /\ Len(selectionModel) = 1
    /\ \E i \in Indices(State) :
          /\ ~options[i].selected
          /\ options[i].value # selectionModel[1]
          /\ LET closes == Named(optionSelect(State, i).trace, "closeOverlay")
             IN Len(closes) = 1 /\ closes[1].at.selected = <<options[i].value>>

\* an open request: focusin, or a keydown of an open combination
FocusEvent == Key("focus", FALSE, FALSE, FALSE)

OpenRequests ==
    {FocusEvent} \cup {ev \in KeyEvents : isKeydownOpenOverlay(ev) /\ ~isKeydownCloseOverlay(ev)}

OpenRequest(s, q) == IF q = FocusEvent THEN handleFocus(s) ELSE handleKeydown(s, q)

\* C7: across two consecutive open requests the overlay is attached once and
\* `opened` fires once (not at all when it was attached before the first);
\* a focusin on an attached overlay changes nothing.
C7_OpenIsIdempotent ==
    /\ \A a, b \in OpenRequests :
          LET r == OpenRequest(OpenRequest(State, a), b)
              n == IF attached THEN 0 ELSE 1
          IN /\ r.attached
             /\ Count(r.trace, "opened") = n
             /\ Count(r.trace, "attach") = n
    /\ attached => handleFocus(State) = State

\* C7 witness: the overlay has been opened and an item is active; a focusin
\* and an ArrowDown keydown that follow attach nothing and emit no `opened`
C7_Witness ==
    /\ attached /\ panelOpen /\ isOpenSignal /\ activeItemIndex >= 0
    /\ LET down == Key("ArrowDown", FALSE, FALSE, FALSE)
           r == handleKeydown(handleFocus(State), down)
       IN r.attached /\ Count(r.trace, "opened") = 0 /\ Count(r.trace, "attach") = 0

\* C8: when the overlay is not attached, a close (by a closing trigger or a
\* close key combination) emits no `closed` and leaves panelOpen, the
\* Panel's open-state and the active item unchanged.
C8_CloseUnattachedIsNoop ==
    ~attached =>
        \A ev \in {e \in KeyEvents : isKeydownCloseOverlay(e)} :
            \A r \in {handleKeydown(State, ev), closingAction(State, FALSE)} :
                /\ Count(r.trace, "closed") = 0
                /\ r.panelOpen = panelOpen
                /\ r.isOpenSignal = isOpenSignal
                /\ r.activeItemIndex = activeItemIndex

\* what every close of an attached overlay leaves
Closed(r) ==
    /\ ~r.attached /\ ~r.panelOpen /\ ~r.isOpenSignal
    /\ r.activeItemIndex = -1 /\ r.activeItem = NullItem
    /\ Count(r.trace, "closed") = 1
    /\ Count(r.trace, "closeOverlay") = 1

\* C9: closing an attached overlay, by a close key combination or by a
\* closing trigger, detaches it, clears panelOpen and the Panel's
\* open-state, resets the active item and emits `closed` exactly once.
C9_CloseAttached ==
    attached =>
        /\ Closed(closeOverlay(State))
        /\ Closed(closingAction(State, FALSE))
        /\ \A ev \in {e \in KeyEvents : isKeydownCloseOverlay(e)} :
              Closed(handleKeydown(State, ev))

\* C9 witness: the overlay is open with an active item, and Escape closes it
C9_Witness ==
    /\ attached /\ panelOpen /\ isOpenSignal /\ activeItemIndex >= 0
    /\ Closed(handleKeydown(State, Key("Escape", FALSE, FALSE, FALSE)))

\* C10: when the overlay is detached by another cause than closeOverlay, the
\* Trigger closes: panelOpen and the Panel's open-state are false, the
\* active item is none and `closed` is emitted.
C10_DetachmentCloses ==
    attached =>
        LET r == overlayDetach(State)
        IN /\ ~r.panelOpen /\ ~r.isOpenSignal
           /\ r.activeItemIndex = -1
           /\ Count(r.trace, "closed") = 1

\* the keydown events
Tab == Key("Tab", FALSE, FALSE, FALSE)

CloseKeys == {ev \in KeyEvents : isKeydownCloseOverlay(ev)}

\* C11: while the overlay is attached, a Tab keydown (the key manager's
\* tabOut) closes the overlay, and in single mode so does every
\* selection-change event (singleSelectionChange): the overlay is detached,
\* the open flags are false and `closed` is emitted once.
C11_TabOutAndSingleSelectionClose ==
    attached =>
        /\ Closed(onKeydown(State, Tab))
        /\ Count(onKeydown(State, Tab).trace, "tabOut") = 1
        /\ Closed(handleKeydown(State, Tab))
        /\ \A i \in Indices(State) : \A src \in Sources :
              (~multiple /\ Emits(State, i, src)) =>
                  /\ Closed(Fire(State, i, src))
                  /\ Count(Fire(State, i, src).trace, "singleSelectionChange") = 1

\* C11 witness: the open overlay with an active item closes on Tab, and in
\* single mode on the selection of an option
C11_Witness ==
    /\ attached /\ panelOpen /\ ~multiple /\ activeItemIndex >= 0
    /\ Closed(handleKeydown(State, Tab))
    /\ \E i \in Indices(State) : ~options[i].selected /\ Closed(optionSelect(State, i))

\* C12: while the overlay is attached, an outside pointer event whose
\* target is not the input closes the overlay; one whose target is the
\* input leaves the overlay attached, changes nothing and emits no `closed`.
C12_OutsidePointer ==
    attached =>
        /\ Closed(closingAction(State, FALSE))
        /\ closingAction(State, TRUE) = State
        /\ closingAction(State, TRUE).attached
        /\ Count(closingAction(State, TRUE).trace, "closed") = 0

\* C12 witness: an open overlay with an active item; a pointer event on the
\* input keeps it, one elsewhere closes it
C12_Witness ==
    /\ attached /\ panelOpen /\ isOpenSignal /\ activeItemIndex >= 0
    /\ closingAction(State, TRUE).attached
    /\ ~closingAction(State, FALSE).attached

\* C13: a close combination (Escape without modifiers, Alt+ArrowUp) on the
\* Trigger while the overlay is open closes it whether or not an option is
\* active, and nothing else runs: no option is toggled, the key manager's
\* onKeydown is not called, the selection is unchanged.
C13_CloseKeyStops ==
    (attached /\ panelOpen) =>
        \A ev \in CloseKeys :
            LET r == handleKeydown(State, ev)
            IN /\ Closed(r)
               /\ r = closeOverlay(State)
               /\ Count(r.trace, "onKeydown") = 0
               /\ Count(r.trace, "selectionChange") = 0
               /\ r.options = options
               /\ r.selectionModel = selectionModel
               /\ r.selected = selected

\* C13 witness: the overlay is open with an active option and Escape closes it
C13_Witness ==
    /\ attached /\ panelOpen /\ activeItem \in Values
    /\ ~handleKeydown(State, Key("Escape", FALSE, FALSE, FALSE)).attached
    /\ handleKeydown(State, Key("Escape", FALSE, FALSE, FALSE)).activeItem = NullItem

\* the open combinations: plain ArrowUp, plain ArrowDown, Alt+ArrowDown
OpenCombinations ==
    {Key("ArrowUp", FALSE, FALSE, FALSE), Key("ArrowDown", FALSE, FALSE, FALSE),
     Key("ArrowDown", TRUE, FALSE, FALSE)}

\* C14: a keydown opens a closed overlay exactly when it is one of the open
\* combinations, and an event that opened it is then delegated to the key
\* manager.
C14_OpenKeysExactly ==
    ~attached =>
        \A ev \in KeyEvents :
            LET r == handleKeydown(State, ev)
            IN /\ r.attached <=> ev \in OpenCombinations
               /\ r.attached => Count(r.trace, "onKeydown") = 1

\* every rendered option is flagged selected exactly when the model holds its value
InSync(s) ==
    \A i \in Indices(s) : s.options[i].selected <=> isSelected(s.selectionModel, s.options[i].value)

\* Ctrl+A negated the flag of every rendered option and was not delegated
SelectAllToggled(s, r) ==
    /\ OptionValues(r.options) = OptionValues(s.options)
    /\ \A i \in Indices(s) : r.options[i].selected = ~s.options[i].selected
    /\ Count(r.trace, "selectionChange") = Len(s.options)
    /\ Count(r.trace, "onKeydown") = 0

SelectKeys == {Key("Enter", FALSE, FALSE, FALSE), Key(" ", FALSE, FALSE, FALSE)}

\* the key manager's active item is the rendered option at its active index
HasActiveItem(s) ==
    /\ s.activeItem \in RenderedValues(s.options)
    /\ ArrayGet(s.options, s.activeItemIndex) = s.activeItem

\* C16: with an active item and the overlay open, Enter or Space raises one
\* selection-change event, that of the active option, whose selected flag
\* is negated; the key manager's onKeydown is not called; in multiple mode
\* no other option's flag changes; in single mode the option is the active
\* item when the handler returns and the input is focused.
C16_EnterSpaceTogglesActive ==
    \A ev \in SelectKeys :
        (HasActiveItem(State) /\ panelOpen) =>
            LET r == handleKeydown(State, ev)
                k == activeItemIndex + 1
            IN /\ Count(r.trace, "selectionChange") = 1
               /\ Named(r.trace, "selectionChange")[1].opt = activeItem
               /\ r.options[k].selected = ~options[k].selected
               /\ Count(r.trace, "onKeydown") = 0
               /\ multiple => \A j \in Indices(State) \ {k} : r.options[j] = options[j]
               /\ ~multiple =>
                    /\ r.activeItem = activeItem
                    /\ r.activeItemIndex = activeItemIndex
                    /\ r.trace[Len(r.trace)].name = "focusInput"

\* 1-based positions of the options the key manager does not skip
Navigable(s) == {i \in Indices(s) : ~skipPredicate(s.options[i])}

AutoSelectActiveOptionValues == BOOLEAN

\* plain ArrowDown and ArrowUp: the keys that move the active item
NavigationKeys ==
    {Key("ArrowDown", FALSE, FALSE, FALSE), Key("ArrowUp", FALSE, FALSE, FALSE)}

\* C18: with autoSelectActiveOption enabled, a navigation key that changes
\* the active option of the open panel selects the option that is now
\* active: its value is in the selection model and in `selected`.
C18_AutoSelectActiveOption ==
    \A autoSelectActiveOption \in AutoSelectActiveOptionValues :
        (autoSelectActiveOption /\ attached /\ panelOpen) =>
            \A ev \in NavigationKeys :
                LET r == handleKeydown(State, ev)
                IN (r.activeItem # activeItem /\ r.activeItem \in RenderedValues(r.options)) =>
                      /\ isSelected(r.selectionModel, r.activeItem)
                      /\ r.activeItem \in Range(r.selected)
                      /\ r.activeItem \in FlaggedValues(r.options)

\* C19: after every option-collection change each rendered option is
\* flagged selected exactly when the selection model holds its value; the
\* change emits no selection-change or single-selection notification and
\* leaves the selection model and `selected` as they were.
C19_OptionsChangeResync ==
    \A vals \in ValueLists :
        LET r == optionsChange(State, vals)
        IN /\ OptionValues(r.options) = vals
           /\ InSync(r)
           /\ Count(r.trace, "selectionChange") = 0
           /\ Count(r.trace, "singleSelectionChange") = 0
           /\ r.selectionModel = selectionModel
           /\ r.selected = selected

\* C19 witness: the model holds a value whose option is not rendered; the
\* host renders it again and the new option shows as selected
C19_Witness ==
    \E vals \in ValueLists : \E i \in 1..Len(vals) :
        /\ vals[i] \notin RenderedValues(options)
        /\ isSelected(selectionModel, vals[i])
        /\ optionsChange(State, vals).options[i].selected
        /\ optionsChange(State, vals).selectionModel = selectionModel

\* C20: after the host writes a list of values to `selected`, the
\* selection model holds exactly those values, and the next
\* selection-change event that selects a further value in multiple mode
\* (not every option being selected then) publishes the written values
\* together with that value.
C20_ExternalWriteSetsSelection ==
    \A vals \in ValueLists :
        LET w == writeSelected(State, vals)
        IN /\ Range(w.selectionModel) = Range(vals)
           /\ \A i \in Indices(w) :
                 LET v == w.options[i].value
                     r == optionSelect(w, i)
                 IN (MultipleMode(w) /\ ~w.options[i].selected /\ v \notin Range(vals)
                        /\ ~AllSelected(r.options)) =>
                       Range(r.selected) = Range(vals) \cup {v}

\* The functions the host can bind to the Panel's compareWith input: the
\* default (o1 == o2) and a comparison by key, under which the values 2k-1
\* and 2k are two references to equal records.  No handler of the Panel or
\* the Trigger reads the input, and ngOnInit passes no compareWith to the
\* SelectionModel, so it is no argument of any of them.
CompareWithFunctions == {"equal", "byKey"}

compareWith(f, o1, o2) ==
    IF f = "byKey" THEN (o1 + 1) \div 2 = (o2 + 1) \div 2 ELSE o1 = o2

\* C21: for whichever compareWith the host supplies and any two values it
\* reports equal, the selection model holds one exactly when it holds the
\* other, a selection-change event of an option with the one value toggles
\* off the other when that is selected, and an option rendered with the one
\* value is flagged selected by the re-synchronization when the model holds
\* the other.
C21_CompareWithDecidesIdentity ==
    \A f \in CompareWithFunctions : \A a, b \in Values :
        compareWith(f, a, b) =>
            /\ isSelected(selectionModel, a) <=> isSelected(selectionModel, b)
            /\ isSelected(selectionModel, a) => ~isSelected(toggle(selectionModel, smMultiple, b), a)
            /\ \A vals \in ValueLists : \A i \in 1..Len(vals) :
                  (vals[i] = b /\ isSelected(selectionModel, a)) =>
                      optionsChange(State, vals).options[i].selected

\* C22: in every reachable state the flag the Panel reads to choose between
\* the single and the multiple reconciliation equals the multiplicity the
\* selection model was constructed with, also after the host changed the
\* `multiple` input.
C22_MultiplicityReadOnce ==
    multiple = smMultiple

\* C23: the panel is marked showable exactly when the option collection has
\* at least one entry, in every reachable state and after every change of
\* the collection, which leaves the overlay attachment alone; the Panel
\* reports open exactly when the Trigger has signalled open and the panel is
\* showable, so it reports closed before the Trigger ever opened, open after
\* an opening over a non-empty collection, and closed after a close.
C23_ShowPanelAndIsOpen ==
    /\ showPanel = (Len(options) > 0)
    /\ isOpen(State) = (isOpenSignal /\ Len(options) > 0)
    /\ ~portal => ~isOpen(State)
    /\ \A vals \in ValueLists :
          LET r == optionsChange(State, vals)
          IN  /\ r.showPanel = (Len(vals) > 0)
              /\ r.attached = attached
              /\ isOpen(r) = (isOpenSignal /\ Len(vals) > 0)
    /\ ~attached => isOpen(openOverlay(State)) = (Len(options) > 0)
    /\ attached => ~isOpen(closeOverlay(State))

C23_Witness ==
    /\ attached
    /\ isOpenSignal
    /\ Len(options) = 0
    /\ ~isOpen(State)
    /\ isOpen(optionsChange(State, <<1>>))
    /\ optionsChange(State, <<1>>).attached

(***************************************************************************)
(* The key manager over options some of which are disabled: the Panel is   *)
(* rendered with up to NumOptions options, each enabled or disabled, and   *)
(* is driven through the bound input (focus, keys), through clicks on its  *)
(* options and through the keyManager's navigation commands, as the        *)
(* component tests do.                                                     *)
(***************************************************************************)
NumOptions == 3

DisabledLists ==
    UNION {[1..n -> BOOLEAN] : n \in 0..NumOptions}

NavCommands == {"first", "last", "next", "previous", "ArrowDown", "ArrowUp"}

navigate(s, cmd) ==
    CASE cmd = "first" -> setFirstItemActive(s)
      [] cmd = "last" -> setLastItemActive(s)
      [] cmd = "next" -> setNextItemActive(s)
      [] cmd = "previous" -> setPreviousItemActive(s)
      [] cmd = "ArrowDown" -> onKeydown(s, Key("ArrowDown", FALSE, FALSE, FALSE))
      [] cmd = "ArrowUp" -> onKeydown(s, Key("ArrowUp", FALSE, FALSE, FALSE))

InitNav ==
    /\ \E d \in DisabledLists :
         options = [i \in 1..Len(d) |->
                       [value |-> i, selected |-> FALSE, disabled |-> d[i]]]
    /\ selectionModel = <<>>
    /\ multiple \in BOOLEAN
    /\ smMultiple = multiple
    /\ selected = <<>>
    /\ showPanel = (Len(options) > 0)
    /\ isOpenSignal = FALSE
    /\ panelOpen = FALSE
    /\ attached = FALSE
    /\ portal = FALSE
    /\ activeItemIndex = -1
    /\ activeItem = NullItem
    /\ autoActiveFirstOption \in BOOLEAN
    /\ devMode = FALSE
    /\ InitTrigger
    /\ InitLabels

\* a test or a subclass calls a navigation command of keyManager
Navigate == \E cmd \in NavCommands : Commit(navigate(State, cmd))

NextNav ==
    \/ Navigate
    \/ Focus
    \/ Keydown
    \/ Click
    \/ SetAutoActiveFirstOption

SpecNav == InitNav /\ [][NextNav]_vars

\* The active option of s is disabled
ActiveIsDisabled(s) ==
    /\ s.activeItemIndex >= 0
    /\ s.activeItemIndex < Len(s.options)
    /\ s.options[s.activeItemIndex + 1].disabled

\* The index a navigation command is to reach over n >= 1 options when no
\* option is skipped
Target(cmd, index, n) ==
    CASE cmd = "first" -> 0
      [] cmd = "last" -> n - 1
      [] cmd \in {"next", "ArrowDown"} -> IF index < 0 THEN 0 ELSE (index + 1) % n
      [] cmd \in {"previous", "ArrowUp"} -> IF index < 0 THEN n - 1 ELSE (index - 1 + n) % n

\* C24: no navigation command (first, last, next, previous, a directional
\* key) leaves a disabled option as the active item.
C24_NavigationSkipsDisabled ==
    \A cmd \in NavCommands : ~ActiveIsDisabled(navigate(State, cmd))

\* C24 (amended): the Panel's skip predicate rejects no option, so every
\* navigation command makes the first, last, next or previous rendered
\* option the active item, whether or not that option is disabled; over an
\* empty list the active item stays as it is.
C24_NavigationSkipsNothing ==
    \A cmd \in NavCommands :
        LET r == navigate(State, cmd)
            n == Len(options)
        IN IF n = 0
           THEN r.activeItemIndex = activeItemIndex /\ r.activeItem = activeItem
           ELSE /\ r.activeItemIndex = Target(cmd, activeItemIndex, n)
                /\ r.activeItem = options[r.activeItemIndex + 1].value

C24_Witness ==
    /\ ActiveIsDisabled(State)
    /\ ActiveIsDisabled(navigate(State, "next"))
    /\ navigate(State, "next").activeItemIndex # activeItemIndex

\* C26: over n >= 1 options, setLastItemActive followed by setNextItemActive
\* makes the option at index 0 the active item, and setFirstItemActive
\* followed by setPreviousItemActive the option at index n - 1.
C26_NavigationWraps ==
    LET n == Len(options)
        a == setNextItemActive(setLastItemActive(State))
        b == setPreviousItemActive(setFirstItemActive(State))
    IN n >= 1 =>
          /\ setLastItemActive(State).activeItemIndex = n - 1
          /\ a.activeItemIndex = 0
          /\ a.activeItem = options[1].value
          /\ setFirstItemActive(State).activeItemIndex = 0
          /\ b.activeItemIndex = n - 1
          /\ b.activeItem = options[n].value

C26_Witness ==
    /\ Len(options) >= 2
    /\ activeItemIndex = Len(options) - 1
    /\ setNextItemActive(State).activeItemIndex = 0
    /\ setPreviousItemActive(setNextItemActive(State)).activeItemIndex = Len(options) - 1

\* C25: in every reachable state the active index is -1 or the index of an
\* option of the rendered list; a collection change that removes the active
\* option leaves the active item none; and Enter or Space toggles no option
\* unless the active item is an option of the rendered list at the active
\* index.
C25_ActiveIndexReconciled ==
    /\ activeItemIndex = -1 \/ (activeItemIndex >= 0 /\ activeItemIndex < Len(options))
    /\ \A vals \in ValueLists :
          (HasActiveItem(State) /\ activeItem \notin Range(vals)) =>
              LET r == optionsChange(State, vals)
              IN r.activeItemIndex = -1 /\ r.activeItem = NullItem
    /\ \A ev \in SelectKeys :
          ~HasActiveItem(State) =>
              Count(handleKeydown(State, ev).trace, "selectionChange") = 0

\* C27: whenever a navigation key makes another rendered option the active
\* item, the Panel emits `optionActivated` carrying that option.
C27_OptionActivatedEmitted ==
    \A ev \in NavigationKeys :
        LET r == handleKeydown(State, ev)
        IN (r.activeItem # activeItem /\ r.activeItem \in RenderedValues(r.options)) =>
              \E k \in 1..Len(r.trace) :
                  r.trace[k].name = "optionActivated" /\ r.trace[k].opt = r.activeItem

(***************************************************************************)
(* The panel's aria-labelledby.  A value of type string | null is <<>>     *)
(* (null) or <<x>> (the string x).                                         *)
(***************************************************************************)
\* JavaScript truthiness of a string | null: null and "" are falsy
truthy(v) == v # Null /\ v[1] # ""

\* a getPanelAriaLabelledby that does not look at ariaLabel
getPanelAriaLabelledbyNoLabel(s, id) ==
    IF truthy(s.ariaLabelledby)
    THEN <<(IF truthy(id) THEN id[1] \o " " ELSE "") \o s.ariaLabelledby[1]>>
    ELSE id

\* ariaLabel and ariaLabelledby are input signals, so both typeof tests find
\* a function and the signal's value is read
getPanelAriaLabelledby(s, id) ==
    IF truthy(s.ariaLabel) THEN Null
    ELSE LET labelExpression == IF truthy(id) THEN id[1] \o " " ELSE ""
         IN IF truthy(s.ariaLabelledby)
            THEN <<labelExpression \o s.ariaLabelledby[1]>>
            ELSE id

\* The strings the host and the form field supply
LabelStrings == {"", "a1", "f1", "l1"}

OptionalStrings == {Null} \cup {<<x>> : x \in LabelStrings}

InitAria ==
    /\ InitCore
    /\ InitTrigger
    /\ ariaLabel \in OptionalStrings
    /\ ariaLabelledby \in OptionalStrings
    /\ labelId \in OptionalStrings
    /\ panelLabelledby = Null

\* the host sets the ariaLabel input
SetAriaLabel ==
    \E v \in OptionalStrings : v # ariaLabel /\ Commit([State EXCEPT !.ariaLabel = v])

\* the host sets the ariaLabelledby input
SetAriaLabelledby ==
    \E v \in OptionalStrings :
        v # ariaLabelledby /\ Commit([State EXCEPT !.ariaLabelledby = v])

\* the panel is rendered: its aria-labelledby is computed from the label id
RenderPanel ==
    Commit([State EXCEPT !.panelLabelledby = getPanelAriaLabelledby(State, labelId)])

NextAria ==
    \/ SetAriaLabel
    \/ SetAriaLabelledby
    \/ RenderPanel

SpecAria == InitAria /\ [][NextAria]_vars

\* C28: getPanelAriaLabelledby(labelId) is null whenever an ariaLabel is set;
\* with no ariaLabel it is labelId, a space and ariaLabelledby when both are
\* present ("f1 l1"), ariaLabelledby alone when labelId is null, and labelId
\* when no ariaLabelledby is configured.  (Set, present and configured mean a
\* non-empty string.)
C28_PanelAriaLabelledby ==
    \A id \in OptionalStrings :
        LET r == getPanelAriaLabelledby(State, id)
        IN /\ truthy(ariaLabel) => r = Null
           /\ (~truthy(ariaLabel) /\ truthy(ariaLabelledby) /\ truthy(id)) =>
                 r = <<id[1] \o " " \o ariaLabelledby[1]>>
           /\ (~truthy(ariaLabel) /\ ariaLabelledby = <<"l1">> /\ id = <<"f1">>) =>
                 r = <<"f1 l1">>
           /\ (~truthy(ariaLabel) /\ truthy(ariaLabelledby) /\ id = Null) =>
                 r = ariaLabelledby
           /\ (~truthy(ariaLabel) /\ ~truthy(ariaLabelledby)) => r = id

C28_Witness ==
    /\ ariaLabel = Null
    /\ ariaLabelledby = <<"l1">>
    /\ labelId = <<"f1">>
    /\ panelLabelledby = <<"f1 l1">>
    /\ getPanelAriaLabelledby([State EXCEPT !.ariaLabel = <<"a1">>], labelId) = Null

(***************************************************************************)
(* The Trigger's lifecycle: ngAfterViewInit creates the overlay, and       *)
(* ngOnDestroy disposes it.                                                *)
(***************************************************************************)
\* a getOverlayPosition that asserts the origin (origin!) instead of testing it
getOverlayPositionUnchecked(s) == Log(s, "positionStrategy", 0)

\* throws when getConnectedOverlayOrigin() is undefined
getOverlayPosition(s) ==
    IF ~s.hasOrigin THEN Log(s, "throw", 0)
    ELSE Log(s, "positionStrategy", 0)

\* the call ended by throwing
Threw(s) == Len(s.trace) > 0 /\ s.trace[Len(s.trace)].name = "throw"

\* new OverlayConfig({positionStrategy: this.getOverlayPosition(), ...}): the
\* other properties only read
getOverlayConfig(s) == getOverlayPosition(s)

\* overlay.create(getOverlayConfig()), then the closing-actions subscription
ngAfterViewInit(s) ==
    LET c == getOverlayConfig(s)
    IN IF Threw(c) THEN c
       ELSE Log([c EXCEPT !.overlayRef = "created"], "overlayCreate", 0)

\* OverlayRef.dispose(): the outlet is disposed, then `detachments` fires
\* when a portal was attached; the reference itself stays in the field
overlayDispose(s) ==
    LET s0 == Log(s, "dispose", 0)
        s1 == [s0 EXCEPT !.attached = FALSE, !.overlayRef = "disposed"]
    IN IF s.attached THEN closingAction(s1, FALSE) ELSE s1

ngOnDestroy(s) ==
    LET s1 == IF s.overlayRef # "undefined" THEN overlayDispose(s) ELSE s
    IN IF s1.portal /\ s1.attached
       THEN Log([s1 EXCEPT !.attached = FALSE], "portalDetach", 0)
       ELSE s1

\* Angular destroys the Trigger: the ngOnDestroy hook, then the DestroyRef
\* callbacks, which end the takeUntilDestroyed subscription
destroyTrigger(s) == [ngOnDestroy(s) EXCEPT !.triggerDestroyed = TRUE]

\* AutoComplete.ngOnDestroy: keyManager.destroy() completes tabOut and change
\* and ends the key manager's subscription to the option list
ngOnDestroyPanel(s) == Log(s, "keyManagerDestroy", 0)

\* Angular destroys the Panel: the hook, then the DestroyRef callbacks
destroyPanel(s) == [ngOnDestroyPanel(s) EXCEPT !.panelDestroyed = TRUE]

\* the Trigger constructed, its view not yet initialised, inside a form
\* field or not
InitLifecycle ==
    /\ InitCore
    /\ hasOrigin \in BOOLEAN
    /\ overlayRef = "undefined"
    /\ InitAlive
    /\ InitLabels

AfterViewInit ==
    /\ overlayRef = "undefined"
    /\ ~triggerDestroyed
    /\ Commit(ngAfterViewInit(State))

FocusAfterInit == overlayRef = "created" /\ Focus

KeydownAfterInit == overlayRef = "created" /\ Keydown

Destroy == Commit(destroyTrigger(State))

DestroyPanel == ~panelDestroyed /\ Commit(destroyPanel(State))

NextLifecycle ==
    \/ AfterViewInit
    \/ FocusAfterInit
    \/ KeydownAfterInit
    \/ Destroy
    \/ DestroyPanel
    \/ Select
    \/ Deselect
    \/ OptionsChange
    \/ SetAutoActiveFirstOption

SpecLifecycle == InitLifecycle /\ [][NextLifecycle]_vars

\* C29: when no connected overlay origin can be resolved, the Trigger's
\* view initialization ends by throwing and creates no overlay (none exists
\* in any reachable state, and nothing else changes); with an origin it
\* creates the overlay without throwing.
C29_MissingOriginThrows ==
    /\ ~hasOrigin => (overlayRef = "undefined" /\ ~attached /\ ~portal)
    /\ overlayRef = "undefined" =>
          LET r == ngAfterViewInit(State)
          IN IF hasOrigin
             THEN /\ r.overlayRef = "created"
                  /\ Count(r.trace, "overlayCreate") = 1
                  /\ Count(r.trace, "throw") = 0
             ELSE /\ Threw(r)
                  /\ Count(r.trace, "overlayCreate") = 0
                  /\ [r EXCEPT !.trace = <<>>] = State

C29_Witness ==
    /\ ~hasOrigin
    /\ overlayRef = "undefined"
    /\ Threw(ngAfterViewInit(State))
    /\ ngAfterViewInit(State).overlayRef = "undefined"

\* C30: tearing down the Trigger disposes the overlay exactly once; a
\* teardown before the overlay was created does nothing, and a repeated
\* teardown disposes nothing again.
C30_TeardownDisposesOnce ==
    /\ overlayRef = "created" => Count(ngOnDestroy(State).trace, "dispose") = 1
    /\ overlayRef = "undefined" => ngOnDestroy(State) = State
    /\ Count(ngOnDestroy(ngOnDestroy(State)).trace, "dispose") <= 1
    /\ overlayRef = "disposed" => ngOnDestroy(State) = State

\* What the Panel holds besides the options' own flags
PanelFields(s) ==
    <<s.selectionModel, s.selected, s.showPanel, s.isOpenSignal,
      s.activeItemIndex, s.activeItem>>

\* What the Trigger holds
TriggerFields(s) == <<s.panelOpen, s.attached, s.portal, s.overlayRef>>

\* C31: once the Panel is torn down, a selection-change event of an option,
\* a change of the option collection and a change of the active item run no
\* handler of the Panel: its state stays as it is and nothing is emitted.
\* Once the Trigger is torn down, no closing trigger (outside pointer,
\* detachment, close key, tab-out, single-selection notification) changes
\* the Trigger's state or emits `closed`.
C31_NoHandlerAfterTeardown ==
    /\ panelDestroyed =>
          /\ \A i \in Indices(State) : \A src \in Sources :
                LET r == Fire(State, i, src)
                IN PanelFields(r) = PanelFields(State) /\ r.trace = <<>>
          /\ \A vals \in ValueLists : optionsChange(State, vals) = State
          /\ \A index \in -1..(Len(options) - 1) :
                setActiveItem(State, index).trace = <<>>
    /\ triggerDestroyed =>
          /\ ~attached
          /\ \A targetIsInput \in BOOLEAN : closingAction(State, targetIsInput) = State
          /\ overlayDetach(State) = State
          /\ \A i \in Indices(State) : \A src \in Sources :
                LET r == Fire(State, i, src)
                IN /\ TriggerFields(r) = TriggerFields(State)
                   /\ Count(r.trace, "closeOverlay") = 0
                   /\ Count(r.trace, "closed") = 0

C31_Witness ==
    /\ panelDestroyed
    /\ triggerDestroyed
    /\ overlayRef = "disposed"
    /\ selectionModel = <<>>
    /\ \E i \in Indices(State) : options[i].selected

\* C32: an active-item change scrolls into view only the rendered option at
\* the new active index, once; when the active item is cleared to none
\* (index -1), as on close, no option is scrolled into view.
C32_ScrollsActiveOptionOnly ==
    /\ \A index \in -1..(Len(options) - 1) :
          LET r == setActiveItem(State, index)
              scrolls == Named(r.trace, "scrollIntoView")
          IN IF index = -1 THEN scrolls = <<>>
             ELSE /\ Len(scrolls) <= 1
                  /\ \A k \in 1..Len(scrolls) : scrolls[k].opt = options[index + 1].value
    /\ attached => Count(closeOverlay(State).trace, "scrollIntoView") = 0

\* Position of the first entry of the trace with the given name (0 = none)
FirstIndex(tr, name) ==
    IF \E k \in 1..Len(tr) : tr[k].name = name
    THEN CHOOSE k \in 1..Len(tr) :
            tr[k].name = name /\ \A j \in 1..(k - 1) : tr[j].name # name
    ELSE 0

\* C33: in every reachable state (after any sequence of opens and closes)
\* an open request constructs the portal once when none exists, before
\* attaching it, and constructs none when one exists; an open of a detached
\* overlay attaches the portal once, a close keeps it, and an attached
\* overlay always has one.
C33_PortalConstructedOnce ==
    /\ attached => portal
    /\ closeOverlay(State).portal = portal
    /\ \A a \in OpenRequests :
          LET r == OpenRequest(State, a)
          IN /\ r.portal /\ r.attached
             /\ Count(r.trace, "newPortal") = (IF portal THEN 0 ELSE 1)
             /\ Count(r.trace, "attach") = (IF attached THEN 0 ELSE 1)
             /\ ~portal => FirstIndex(r.trace, "newPortal") < FirstIndex(r.trace, "attach")

C33_Witness ==
    /\ portal
    /\ ~attached
    /\ LET r == handleFocus(State)
       IN r.attached /\ Count(r.trace, "newPortal") = 0 /\ Count(r.trace, "attach") = 1

\* Values the selection model holds for which no option is rendered
Unrendered(s) == Range(s.selectionModel) \ RenderedValues(s.options)

C35_NoActiveItemWhenDetached ==
    /\ ~attached => (activeItemIndex = -1 /\ activeItem = NullItem)
    /\ \A ev \in SelectKeys :
          (SingleMode(State) /\ attached /\ panelOpen /\ HasActiveItem(State)) =>
              LET r == handleKeydown(State, ev)
              IN ~r.attached => (r.activeItemIndex = -1 /\ r.activeItem = NullItem)

\* C36: in every reachable state the Trigger's panelOpen flag and the
\* Panel's open-state are true exactly when the overlay is attached.
C36_OpenFlagsMatchAttachment ==
    /\ panelOpen <=> attached
    /\ isOpenSignal <=> attached

\* C35 (amended): a close of the attached overlay leaves the active item
\* none; but in single mode, when Enter or Space toggles the active option
\* of the open panel, the single-selection notification closes the overlay
\* (one `closed`) and the handler then re-affirms that option as the active
\* item, so the handler ends with the overlay detached and that option
\* active.
C35_ReaffirmedAfterSingleSelection ==
    /\ attached =>
          LET c == closeOverlay(State)
          IN ~c.attached /\ c.activeItemIndex = -1 /\ c.activeItem = NullItem
    /\ \A ev \in SelectKeys :
          (SingleMode(State) /\ attached /\ panelOpen /\ HasActiveItem(State)) =>
              LET r == handleKeydown(State, ev)
              IN /\ ~r.attached
                 /\ Count(r.trace, "closed") = 1
                 /\ Named(r.trace, "closed")[1].at.activeItemIndex = -1
                 /\ r.activeItem = activeItem
                 /\ r.activeItemIndex = activeItemIndex

C35_Witness ==
    /\ SingleMode(State)
    /\ ~attached /\ ~panelOpen
    /\ HasActiveItem(State)
    /\ selectionModel = <<activeItem>>

\* C37: a plain ArrowDown on a Trigger whose overlay is closed and whose
\* active item is none, over at least one option, leaves the overlay
\* attached with the first option active, with and without
\* autoActiveFirstOption.
C37_ArrowDownOpensOnFirst ==
    (~attached /\ ~panelOpen /\ activeItemIndex = -1 /\ activeItem = NullItem
        /\ Len(options) >= 1) =>
        LET r == handleKeydown(State, Key("ArrowDown", FALSE, FALSE, FALSE))
        IN /\ r.attached
           /\ r.activeItemIndex = 0
           /\ r.activeItem = options[1].value

\* The keys that change selection in the open panel
SelectionKeys == SelectKeys \cup {SelectAllKey}

\* C38: while the Panel's `multiple` is set, no selection-change event
\* closes the overlay: a select, a deselect or a click of an option, and
\* Enter, Space or Ctrl+A on the open panel, emit no single-selection
\* notification and no `closed`, and leave the attachment as it was.
C38_MultipleNeverCloses ==
    multiple =>
        /\ \A i \in Indices(State) : \A src \in Sources :
              Emits(State, i, src) =>
                  LET r == Fire(State, i, src)
                  IN /\ Count(r.trace, "singleSelectionChange") = 0
                     /\ Count(r.trace, "closed") = 0
                     /\ r.attached = attached
        /\ \A ev \in SelectionKeys :
              (attached /\ panelOpen) =>
                  LET r == handleKeydown(State, ev)
                  IN /\ Count(r.trace, "singleSelectionChange") = 0
                     /\ Count(r.trace, "closed") = 0
                     /\ r.attached

C38_Witness ==
    /\ MultipleMode(State)
    /\ attached /\ panelOpen
    /\ HasActiveItem(State)
    /\ Len(selectionModel) >= 1
    /\ LET r == handleKeydown(State, Key("Enter", FALSE, FALSE, FALSE))
       IN r.attached /\ Count(r.trace, "selectionChange") = 1

\* The selection as the Panel holds and shows it
Selection(s) == <<s.selectionModel, s.selected, s.options>>

\* C39: with autoSelectActiveOption disabled, a change of the active item
\* by a navigation key, by a navigation command, by an open or by a close
\* leaves the selection model, every option's selected flag and `selected`
\* as they were.
C39_NavigationKeepsSelection ==
    \A autoSelectActiveOption \in AutoSelectActiveOptionValues :
        ~autoSelectActiveOption =>
            /\ \A ev \in NavigationKeys :
                  Selection(handleKeydown(State, ev)) = Selection(State)
            /\ \A index \in -1..(Len(options) - 1) :
                  Selection(setActiveItem(State, index)) = Selection(State)
            /\ ~attached => Selection(handleFocus(State)) = Selection(State)
            /\ attached => Selection(closeOverlay(State)) = Selection(State)

C39_Witness ==
    /\ attached /\ panelOpen
    /\ HasActiveItem(State)
    /\ Len(selectionModel) = 1
    /\ activeItem \notin Range(selectionModel)
    /\ LET r == handleKeydown(State, Key("ArrowDown", FALSE, FALSE, FALSE))
       IN r.activeItem # activeItem /\ r.activeItem \in RenderedValues(r.options)

\* C40: a Ctrl+A keydown changes selection only in multiple mode with the
\* overlay open (the Trigger's panelOpen flag, which the handler tests): in
\* single mode, or while the overlay is closed, it leaves every option's
\* selected flag, the selection model and `selected` as they were; in
\* multiple mode with the overlay open it toggles the flag of every rendered
\* option.
C40_SelectAllOnlyMultipleAndOpen ==
    LET r == handleKeydown(State, SelectAllKey)
    IN /\ (~multiple \/ ~panelOpen) => Selection(r) = Selection(State)
       /\ (multiple /\ panelOpen) =>
             \A i \in Indices(State) : r.options[i].selected = ~options[i].selected

C40_Witness ==
    /\ SingleMode(State)
    /\ attached /\ panelOpen
    /\ Len(options) >= 2
    /\ Len(selectionModel) = 1
    /\ handleKeydown(State, SelectAllKey).options = options
    /\ Count(handleKeydown(State, SelectAllKey).trace, "onKeydown") = 1

====
